---- MODULE Spec2Model ----
(***************************************************************************)
(* MicronForce in-house GPT proxy.                                         *)
(*                                                                         *)
(* Two servers live in the repository: the SQLite-backed server            *)
(* (src/unnamed/part_000: rate limiter, cookie/JWT roles, chat_settings    *)
(* and chat_logs tables) and the in-memory server                          *)
(* (src/micronforce_inhouse/server/index.js: settings object, logs array). *)
(* The variable `server` says which of the two a behaviour runs.           *)
(*                                                                         *)
(* JavaScript values are modelled as follows: a string is a TLA+ string,   *)
(* except message contents and the system prompt, which are tuples of      *)
(* one-character strings (String.prototype.trim works on them);            *)
(* `undefined`, `null` and a non-string object are the sentinels           *)
(* Undefined, Null and Obj.                                                *)
(***************************************************************************)
EXTENDS Integers, Sequences, FiniteSets, TLC

VARIABLES
    server,         \* "sqlite" (part_000) or "memory" (index.js)
    env,            \* process.env: ADMIN_BYPASS_TOKEN, AUTH_JWT_SECRET, AUTH_JWT_ISSUER
    bucket,         \* part_000: const bucket = new Map()   ip -> {count, reset}
    now,            \* Date.now()
    chat_settings,  \* part_000: the single row of table chat_settings
    chat_logs,      \* part_000: table chat_logs, in insertion (id) order
    settings,       \* index.js: let settings = {...}
    logs,           \* index.js: const logs = []  (newest first)
    last,           \* the request handled by the last step and its outcome
    probe,          \* direct calls of allow(): parameters and call log
    sent            \* history: <<client, route>> -> requests received so far, for the
                    \* pairs a behaviour observes

vars == <<server, env, bucket, now, chat_settings, chat_logs, settings, logs, last, probe, sent>>

-----------------------------------------------------------------------------
\* Bounds of the model.

\* number of direct allow() calls in one behaviour of SpecAllow
MaxCalls == 4
\* largest `limit` argument tried in SpecAllow
MaxLimit == 2
\* largest `windowMs` argument tried in SpecAllow
MaxWindow == 2
\* last clock value of SpecAllow
MaxNow == 4

-----------------------------------------------------------------------------
\* JavaScript sentinels.

Undefined == "undefined"
Null == "null"
Obj == "[object Object]"

-----------------------------------------------------------------------------
\* Rate limiter (part_000 lines 56-75).

IPs == {"10.0.0.1", "10.0.0.2"}

EmptyMap == [k \in {} |-> 0]

\* bucket.get(ip) || { count: 0, reset: now + windowMs }
bucketGet(b, ip, windowMs, t) ==
    IF ip \in DOMAIN b THEN b[ip] ELSE [count |-> 0, reset |-> t + windowMs]

\* if (now > b.reset) { b.count = 0; b.reset = now + windowMs }
allowExpired_BoundaryResets(b, t) == t >= b.reset

allowExpired(b, t) == t > b.reset

allowWindow(b, windowMs, t) ==
    IF allowExpired(b, t) THEN [count |-> 0, reset |-> t + windowMs] ELSE b

\* allow(ip, limit, windowMs): the bucket map after the call and the value returned.
allow(bk, ip, limit, windowMs, t) ==
    LET b0 == bucketGet(bk, ip, windowMs, t)
        b1 == allowWindow(b0, windowMs, t)
        b2 == [b1 EXCEPT !.count = b1.count + 1]
    IN  [bucket |-> [k \in DOMAIN bk \cup {ip} |-> IF k = ip THEN b2 ELSE bk[k]],
         ok     |-> b2.count <= limit]

\* rateLimit(limit, windowMs): the client key of a request (line 71).
ClientIp(req) ==
    IF req.xff # Undefined /\ req.xff # "" THEN req.xff
    ELSE IF req.remoteAddress # Undefined THEN req.remoteAddress
    ELSE "unknown"

\* rateLimit(limit, windowMs) applied to a request (line 72): allow() on the bucket map.
rateLimit(req, limit, windowMs) == allow(bucket, ClientIp(req), limit, windowMs, now)

-----------------------------------------------------------------------------
\* JavaScript values of request bodies and query strings.

JUndef == [t |-> "undefined"]
JNull == [t |-> "null"]
JObj == [t |-> "object"]
JStr(s) == [t |-> "string", v |-> s]
JNum(n) == [t |-> "number", v |-> n]
JArr(a) == [t |-> "array", v |-> a]

\* truthiness of a header or environment string
TruthyStr(s) == s \notin {Undefined, Null, ""}

\* truthiness of a body value whose strings are plain strings
Truthy(x) ==
    CASE x.t = "string" -> x.v # ""
      [] x.t = "number" -> x.v # 0
      [] x.t \in {"object", "array"} -> TRUE
      [] OTHER -> FALSE

\* truthiness of a body value whose strings are texts (tuples of characters)
TruthyText(x) ==
    CASE x.t = "string" -> Len(x.v) > 0
      [] x.t \in {"object", "array"} -> TRUE
      [] OTHER -> FALSE

Whitespace == {" ", "\n", "\t"}

RECURSIVE trimStart(_)
trimStart(s) == IF s # <<>> /\ Head(s) \in Whitespace THEN trimStart(Tail(s)) ELSE s

RECURSIVE trimEnd(_)
trimEnd(s) ==
    IF s # <<>> /\ s[Len(s)] \in Whitespace THEN trimEnd(SubSeq(s, 1, Len(s) - 1)) ELSE s

\* String.prototype.trim
trim(s) == trimEnd(trimStart(s))

\* String.prototype.toLowerCase on the engine names of the model (every other
\* string of the model is lower-case already)
toLowerCase(s) ==
    CASE s = "Browser" -> "browser"
      [] s = "OpenAI" -> "openai"
      [] OTHER -> s

\* JSON.stringify: the serialised form of a value (a TEXT column, not the value)
JSONstringify(v) == [json |-> v]

-----------------------------------------------------------------------------
\* Environment defaults (part_000 lines 10-19).

CHAT_MODEL == "gpt-4o-mini"
TTS_ENGINE == "openai"
TTS_VOICE == "alloy"

\* the row inserted by `insert into chat_settings (id) values (1)` (lines 35-42)
DefaultRow ==
    [model |-> "gpt-4o-mini", tts_engine |-> "openai", tts_voice |-> "alloy",
     system_prompt |-> <<>>]

\* index.js lines 27-31
MemDefaultSettings ==
    [model |-> "gpt-4o-mini", tts_engine |-> "openai", tts_voice |-> "alloy"]

-----------------------------------------------------------------------------
\* Auth (part_000 lines 77-101, index.js lines 38-43).

NoToken == [kind |-> "none"]
Garbage == [kind |-> "garbage"]
Jwt(key, iss, role) == [kind |-> "jwt", key |-> key, iss |-> iss, role |-> role]

\* jwt.verify(token, secret, {issuer}): the payload, or a throw when the token is
\* malformed, not signed with the secret, or from another issuer
jwtVerify(token, secret, issuer) ==
    IF /\ token.kind = "jwt"
       /\ token.key = secret
       /\ (TruthyStr(issuer) => token.iss = issuer)
    THEN [t |-> "payload", role |-> token.role]
    ELSE [t |-> "throw"]

\* jwt.decode(token): the payload without any verification, null when malformed
jwtDecode(token) ==
    IF token.kind = "jwt" THEN [t |-> "payload", role |-> token.role] ELSE [t |-> "null"]

getRoleFromCookie(req) ==
    LET token == req.cookie IN
    IF token.kind = "none" THEN Null
    ELSE LET decoded == IF TruthyStr(env.AUTH_JWT_SECRET)
                        THEN jwtVerify(token, env.AUTH_JWT_SECRET, env.AUTH_JWT_ISSUER)
                        ELSE jwtDecode(token)
         IN  IF decoded.t = "payload" /\ TruthyStr(decoded.role) THEN decoded.role ELSE Null

requireSuperadmin_NoTokenGuard(req) ==
    \/ getRoleFromCookie(req) = "superadmin"
    \/ req.xadmin = env.ADMIN_BYPASS_TOKEN

\* TRUE when the middleware calls next(), FALSE when it answers 401
requireSuperadmin(req) ==
    \/ getRoleFromCookie(req) = "superadmin"
    \/ (TruthyStr(env.ADMIN_BYPASS_TOKEN) /\ req.xadmin = env.ADMIN_BYPASS_TOKEN)

\* requireUser never rejects (lines 96-101)
requireUser(req) == IF getRoleFromCookie(req) # Null THEN TRUE ELSE TRUE

\* index.js requireAdmin: "next", or the 401 error it answers
requireAdmin(req) ==
    IF ~TruthyStr(env.ADMIN_BYPASS_TOKEN) THEN "admin_token_missing"
    ELSE IF req.xadmin # env.ADMIN_BYPASS_TOKEN THEN "unauthorized"
    ELSE "next"

-----------------------------------------------------------------------------
\* What a route answers: the HTTP status and body, the upstream calls it issued,
\* the stores it touched, whether the route's own handler ran, and the stores after.

Answer(status, body, calls, touched, ran, row, lg) ==
    [status |-> status, body |-> body, calls |-> calls, touched |-> touched,
     ran |-> ran, settings |-> row, logs |-> lg]

\* res.status(429).json({ error: 'rate_limited' })  (line 72)
RateLimited == Answer(429, [error |-> "rate_limited"], <<>>, {}, FALSE, chat_settings, chat_logs)

\* res.status(401).json({ error: 'Superadmin required' })  (line 93)
Unauthorized == Answer(401, [error |-> "Superadmin required"], <<>>, {}, FALSE, chat_settings, chat_logs)

-----------------------------------------------------------------------------
\* Settings routes of the SQLite server (lines 103-121).

settingsGet == Answer(200, chat_settings, <<>>, {"settings:r"}, TRUE, chat_settings, chat_logs)

SettingsFields == {"model", "tts_engine", "tts_voice", "system_prompt"}

\* coalesce(@f, f): the bound value unless it is NULL
coalesce(x, old) == IF x.t \in {"null", "undefined"} THEN old ELSE x.v

\* The update statement of PUT /api/super/settings.  better-sqlite3 binds numbers,
\* strings, bigints, buffers and null; binding an object throws a TypeError.  What it
\* does with an undefined value is not decided by src/: `undef` is "throw" (TypeError)
\* or "null" (bound as NULL).  A throw leaves the row alone and Express answers 500.
settingsPut(req, undef) ==
    LET body == req.body
        throws == \E f \in SettingsFields :
                     \/ body[f].t \in {"object", "array"}
                     \/ body[f].t = "undefined" /\ undef = "throw"
        row == [f \in SettingsFields |-> coalesce(body[f], chat_settings[f])]
    IN  IF throws
        THEN Answer(500, [error |-> "TypeError"], <<>>, {}, TRUE, chat_settings, chat_logs)
        ELSE Answer(200, row, <<>>, {"settings:r", "settings:w"}, TRUE, row, chat_logs)

-----------------------------------------------------------------------------
\* Chat routes of the SQLite server (lines 123-165 and 227-272).

\* const { messages = [] } = req.body
bodyMessages(req) == IF req.body.messages.t = "undefined" THEN JArr(<<>>) ELSE req.body.messages

systemPromptApplies_NoTrim(row) == Len(row.system_prompt) > 0

\* if (settings?.system_prompt?.trim())
systemPromptApplies(row) == Len(trim(row.system_prompt)) > 0

\* finalMessages: the system message, when the prompt applies, then the request's messages
finalMessages(row, messages) ==
    (IF systemPromptApplies(row)
     THEN <<[role |-> "system", content |-> row.system_prompt]>>
     ELSE <<>>) \o messages

\* the body of the fetch to /v1/chat/completions
chatCall(row, msgs) ==
    [url |-> "chat/completions",
     model |-> IF row.model # "" THEN row.model ELSE CHAT_MODEL,
     messages |-> msgs]

\* usage.prompt_tokens || null
tokenOrNull(n) == IF n # 0 THEN JNum(n) ELSE JNull

logRow_UserScope(id, actor, scope, msgs, reply, usage, t) ==
    [id |-> id, actor |-> actor, scope |-> "user", messages |-> JSONstringify(msgs),
     reply |-> reply, tokens_prompt |-> tokenOrNull(usage.prompt_tokens),
     tokens_completion |-> tokenOrNull(usage.completion_tokens), created_at |-> t]

\* the row inserted into chat_logs
logRow(id, actor, scope, msgs, reply, usage, t) ==
    [id |-> id, actor |-> actor, scope |-> scope, messages |-> JSONstringify(msgs),
     reply |-> reply, tokens_prompt |-> tokenOrNull(usage.prompt_tokens),
     tokens_completion |-> tokenOrNull(usage.completion_tokens), created_at |-> t]

\* the insert throws when a bound value is not bindable or the database fails
insertThrows(actor, db) == actor = <<Obj>> \/ db # "ok"

\* if (!r.ok) return res.status(r.status).json(data)
upstreamErrorStatus_Always500(up) == 500

upstreamErrorStatus(up) == up.status

chatFailed(calls, touched) ==
    Answer(500, [error |-> "chat_failed"], calls, touched, TRUE, chat_settings, chat_logs)

\* the try block of a chat route; `up` is what the upstream answers, `db` the
\* outcome of the insert at the database
chatHandler(req, up, db, scope, actor) ==
    LET row == chat_settings
        m == bodyMessages(req)
    IN  IF m.t # "array"
        THEN chatFailed(<<>>, {"settings:r"})        \* for (const m of messages) throws
        ELSE
        LET msgs == finalMessages(row, m.v)
            call == chatCall(row, msgs)
            reply == IF up.content \in {Null, Undefined} THEN "" ELSE up.content
        IN  CASE up.kind = "throw" -> chatFailed(<<call>>, {"settings:r"})
              [] up.kind = "error" ->
                    Answer(upstreamErrorStatus(up), up.data, <<call>>, {"settings:r"}, TRUE,
                           chat_settings, chat_logs)
              [] OTHER ->
                    IF insertThrows(actor, db)
                    THEN chatFailed(<<call>>, {"settings:r"})
                    ELSE Answer(200,
                                [reply |-> reply, usage |-> up.usage, created_at |-> now],
                                <<call>>, {"settings:r", "logs:w"}, TRUE, chat_settings,
                                Append(chat_logs,
                                       logRow(Len(chat_logs) + 1, actor, scope, msgs,
                                              reply, up.usage, now)))

\* The actor of a log row is a tuple of the string pieces it is concatenated from.
\* const { admin_user = 'superadmin' } = req.body
adminUser(req) ==
    IF req.body.admin_user = Undefined THEN <<"superadmin">> ELSE <<req.body.admin_user>>

\* const actor = user_id ? `user:${user_id}` : `ip:${ip}`
userActor(req) ==
    IF TruthyStr(req.body.user_id) THEN <<"user:", req.body.user_id>>
    ELSE <<"ip:", ClientIp(req)>>

-----------------------------------------------------------------------------
\* TTS routes of the SQLite server (lines 167-188 and 274-295).

ttsFailed(calls, touched) ==
    Answer(500, [error |-> "tts_failed"], calls, touched, TRUE, chat_settings, chat_logs)

\* voice || settings?.tts_voice || TTS_VOICE
ttsVoice(voice, stored) ==
    IF TruthyStr(voice) THEN voice ELSE IF TruthyStr(stored) THEN stored ELSE TTS_VOICE

\* (settings?.tts_engine || TTS_ENGINE).toLowerCase()
ttsEngine(row) == toLowerCase(IF TruthyStr(row.tts_engine) THEN row.tts_engine ELSE TTS_ENGINE)

\* if (!r.ok) return res.status(500).send(await r.text())
ttsErrorStatus(up) == 500

ttsHandler(req, up) ==
    LET row == chat_settings
        text == IF req.query.text = Undefined THEN "" ELSE req.query.text
        call == [url |-> "audio/speech", model |-> "gpt-4o-mini-tts",
                 voice |-> ttsVoice(req.query.voice, row.tts_voice), input |-> text]
    IN  IF ttsEngine(row) = "browser"
        THEN Answer(400, [error |-> "browser_tts_enabled"], <<>>, {"settings:r"}, TRUE,
                    chat_settings, chat_logs)
        ELSE CASE up.kind = "throw" -> ttsFailed(<<call>>, {"settings:r"})
               [] up.kind = "error" ->
                     Answer(ttsErrorStatus(up), up.data, <<call>>, {"settings:r"}, TRUE,
                            chat_settings, chat_logs)
               [] OTHER ->
                     Answer(200, [audio |-> up.content], <<call>>, {"settings:r"}, TRUE,
                            chat_settings, chat_logs)

-----------------------------------------------------------------------------
\* STT routes of the SQLite server (lines 190-214 and 297-320).

\* res.status(r.ok ? 200 : 500).json(data)
sttStatus(up) == IF up.kind = "ok" THEN 200 ELSE 500

sttHandler(req, up) ==
    IF req.file = Undefined
    THEN Answer(400, [error |-> "audio file required"], <<>>, {}, TRUE,
                chat_settings, chat_logs)
    ELSE LET call == [url |-> "audio/transcriptions", model |-> "audio-transcriptions-1",
                      file |-> req.file]
         IN  IF up.kind = "throw"
             THEN Answer(500, [error |-> "stt_failed"], <<call>>, {}, TRUE,
                         chat_settings, chat_logs)
             ELSE Answer(sttStatus(up), up.data, <<call>>, {}, TRUE,
                         chat_settings, chat_logs)

-----------------------------------------------------------------------------
\* Logs route of the SQLite server (lines 216-223).

RECURSIVE Reverse(_)
Reverse(s) == IF s = <<>> THEN <<>> ELSE Append(Reverse(Tail(s)), Head(s))

\* Number(limit) for the query strings of the model; the default is the number 50
NumberOf(x) ==
    CASE x = Undefined -> 50
      [] x = "" -> 0
      [] x = "0" -> 0
      [] x = "1" -> 1
      [] x = "2" -> 2
      [] x = "3" -> 3
      [] x = "4" -> 4
      [] x = "-1" -> 0 - 1

\* `order by id desc limit ?`: a negative limit is no limit in SQLite
orderByIdDescLimit(rows, n) ==
    LET desc == Reverse(rows)
    IN  IF n < 0 \/ n >= Len(desc) THEN desc ELSE SubSeq(desc, 1, n)

\* The model's requests carry no filter: q is absent or empty, the second branch.
logsHandler(req) ==
    Answer(200, [rows |-> orderByIdDescLimit(chat_logs, NumberOf(req.query.limit))],
           <<>>, {"logs:r"}, TRUE, chat_settings, chat_logs)

-----------------------------------------------------------------------------
\* The in-memory server (index.js).

LogsCap == 200

MemAnswer(status, body, calls, touched, ran, st, lg) ==
    Answer(status, body, calls, touched, ran, st, lg)

MemUnauthorized(err) == MemAnswer(401, [error |-> err], <<>>, {}, FALSE, settings, logs)

memSettingsGet == MemAnswer(200, settings, <<>>, {"settings:r"}, TRUE, settings, logs)

\* if (model) settings.model = model
memAssign(x, old) == IF Truthy(x) THEN (IF x.t = "string" THEN x.v ELSE Obj) ELSE old

memSettingsPut(req) ==
    LET st == [f \in {"model", "tts_engine", "tts_voice"} |-> memAssign(req.body[f], settings[f])]
    IN  MemAnswer(200, st, <<>>, {"settings:r", "settings:w"}, TRUE, st, logs)

\* callChat(messages): the request handed to client.chat.completions.create
memChatCall(messages) ==
    [url |-> "chat/completions",
     model |-> IF TruthyStr(settings.model) THEN settings.model ELSE "gpt-4o-mini",
     messages |-> messages]

\* the entry of logs.unshift({...})
memLogEntry(scope, actor, messages, reply, t) ==
    [created_at |-> t, scope |-> scope, actor |-> actor,
     messages |-> JSONstringify(messages), reply |-> reply]

\* the try block of a chat route of index.js; the OpenAI client throws on a
\* non-success answer
memChatHandler(req, up, scope, actor) ==
    LET messages == bodyMessages(req).v
        call == memChatCall(messages)
        reply == IF TruthyStr(up.content) THEN up.content ELSE ""
    IN  IF up.kind # "ok"
        THEN MemAnswer(500, [error |-> "chat_failed"], <<call>>, {}, TRUE, settings, logs)
        ELSE MemAnswer(200, [reply |-> reply], <<call>>, {"logs:w"}, TRUE, settings,
                       <<memLogEntry(scope, actor, messages, reply, now)>> \o logs)

\* ttsBuffer(text, voice) and the route around it: no look at settings.tts_engine
memTtsHandler(req, up) ==
    LET text == IF TruthyStr(req.query.text) THEN req.query.text ELSE ""
        voice == IF TruthyStr(req.query.voice) THEN req.query.voice
                 ELSE IF TruthyStr(settings.tts_voice) THEN settings.tts_voice ELSE "alloy"
        call == [url |-> "audio/speech", model |-> "gpt-4o-mini-tts",
                 voice |-> voice, input |-> text]
    IN  IF up.kind # "ok"
        THEN MemAnswer(500, [error |-> "tts_failed"], <<call>>, {"settings:r"}, TRUE, settings, logs)
        ELSE MemAnswer(200, [audio |-> up.content], <<call>>, {"settings:r"}, TRUE, settings, logs)

\* res.json(filtered.slice(0,200)); the model's requests carry no filter, and
\* req.query.limit is never read
memLogsHandler(req) ==
    MemAnswer(200, [rows |-> SubSeq(logs, 1, IF Len(logs) < LogsCap THEN Len(logs) ELSE LogsCap)],
              <<>>, {"logs:r"}, TRUE, settings, logs)

-----------------------------------------------------------------------------
\* The steps: one per route.

\* per-route limits and the window (rateLimit(60, 60_000) and so on)
SuperChatLimit == 60
SuperTtsLimit == 30
SuperSttLimit == 20
UserChatLimit == 30
UserTtsLimit == 30
UserSttLimit == 20
WindowMs == 60000

NoUp == [kind |-> "none"]
NoRequest ==
    [route |-> "none", req |-> [none |-> TRUE], up |-> NoUp, db |-> "ok", role |-> Undefined,
     status |-> 0, body |-> [none |-> TRUE], calls |-> <<>>, touched |-> {}, ran |-> FALSE,
     limited |-> FALSE]

\* what `last` records of a handled request
Handled(route, req, up, db, role, ans, limited) ==
    [route |-> route, req |-> req,
     up |-> IF ans.calls = <<>> THEN NoUp ELSE up,
     db |-> IF "logs:w" \in ans.touched \/ (ans.calls # <<>> /\ up.kind = "ok") THEN db ELSE "ok",
     role |-> role, status |-> ans.status, body |-> ans.body, calls |-> ans.calls,
     touched |-> ans.touched, ran |-> ans.ran, limited |-> limited]

\* A route of the SQLite server behind rateLimit(limit, WindowMs) (limit < 0: no
\* rate limit) and, when `super`, requireSuperadmin.
Route(route, req, up, db, limit, super, handled) ==
    /\ server = "sqlite"
    /\ \E rl \in {IF limit < 0 THEN [bucket |-> bucket, ok |-> TRUE]
                  ELSE rateLimit(req, limit, WindowMs)} :
       \E ans \in {IF ~rl.ok THEN RateLimited
                   ELSE IF super /\ ~requireSuperadmin(req) THEN Unauthorized
                   ELSE handled} :
          /\ bucket' = rl.bucket
          /\ chat_settings' = ans.settings
          /\ chat_logs' = ans.logs
          /\ last' = Handled(route, req, up, db,
                             IF rl.ok /\ super THEN getRoleFromCookie(req) ELSE Undefined,
                             ans, limit >= 0)
    /\ sent' = [k \in DOMAIN sent |->
                   IF k = <<ClientIp(req), route>> THEN sent[k] + 1 ELSE sent[k]]
    /\ UNCHANGED <<server, env, now, settings, logs, probe>>

SuperSettingsGet(req) ==
    Route("GET /api/super/settings", req, NoUp, "ok", 0 - 1, TRUE, settingsGet)

SuperSettingsPut(req, undef) ==
    Route("PUT /api/super/settings", req, NoUp, "ok", 0 - 1, TRUE, settingsPut(req, undef))

SuperChat(req, up, db) ==
    Route("POST /api/super/chat", req, up, db, SuperChatLimit, TRUE,
          chatHandler(req, up, db, "super", adminUser(req)))

SuperTts(req, up) ==
    Route("GET /api/super/tts", req, up, "ok", SuperTtsLimit, TRUE, ttsHandler(req, up))

SuperStt(req, up) ==
    Route("POST /api/super/stt", req, up, "ok", SuperSttLimit, TRUE, sttHandler(req, up))

SuperLogs(req) ==
    Route("GET /api/super/logs", req, NoUp, "ok", 0 - 1, TRUE, logsHandler(req))

UserChat(req, up, db) ==
    /\ requireUser(req)
    /\ Route("POST /api/chat/user/send", req, up, db, UserChatLimit, FALSE,
             chatHandler(req, up, db, "user", userActor(req)))

UserTts(req, up) ==
    Route("GET /api/tts", req, up, "ok", UserTtsLimit, FALSE, ttsHandler(req, up))

UserStt(req, up) ==
    Route("POST /api/stt", req, up, "ok", UserSttLimit, FALSE, sttHandler(req, up))

\* A route of the in-memory server, behind requireAdmin when `super`.
MemRoute(route, req, up, super, handled) ==
    /\ server = "memory"
    /\ \E verdict \in {IF super THEN requireAdmin(req) ELSE "next"} :
       \E ans \in {IF verdict # "next" THEN MemUnauthorized(verdict) ELSE handled} :
          /\ settings' = ans.settings
          /\ logs' = ans.logs
          /\ last' = Handled(route, req, up, "ok", Undefined, ans, FALSE)
    /\ UNCHANGED <<server, env, now, bucket, chat_settings, chat_logs, probe, sent>>

MemSuperSettingsGet(req) == MemRoute("GET /api/super/settings", req, NoUp, TRUE, memSettingsGet)

MemSuperSettingsPut(req) ==
    MemRoute("PUT /api/super/settings", req, NoUp, TRUE, memSettingsPut(req))

MemSuperChat(req, up) ==
    MemRoute("POST /api/super/chat", req, up, TRUE,
             memChatHandler(req, up, "super", adminUser(req)))

MemSuperTts(req, up) == MemRoute("GET /api/super/tts", req, up, TRUE, memTtsHandler(req, up))

MemSuperLogs(req) == MemRoute("GET /api/super/logs", req, NoUp, TRUE, memLogsHandler(req))

MemUserChat(req, up) ==
    MemRoute("POST /api/chat/user/send", req, up, FALSE,
             memChatHandler(req, up, "user", <<"user">>))

MemUserTts(req, up) == MemRoute("GET /api/tts", req, up, FALSE, memTtsHandler(req, up))

\* Date.now() moves on by d milliseconds.
Tick(d) ==
    /\ now' = now + d
    /\ UNCHANGED <<server, env, bucket, chat_settings, chat_logs, settings, logs, last, probe, sent>>

\* A direct call allow(ip, probe.limit, probe.windowMs).
AllowCall(ip) ==
    LET r == allow(bucket, ip, probe.limit, probe.windowMs, now)
    IN  /\ bucket' = r.bucket
        /\ probe' = [probe EXCEPT !.calls =
                        Append(@, [key |-> ip, t |-> now, ok |-> r.ok,
                                   reset |-> r.bucket[ip].reset])]
        /\ UNCHANGED <<server, env, now, chat_settings, chat_logs, settings, logs, last, sent>>

-----------------------------------------------------------------------------
\* Initial states.

NoProbe == [limit |-> 0, windowMs |-> 0, calls |-> <<>>]

Boot(srv, e, pr) ==
    /\ server = srv
    /\ env = e
    /\ bucket = EmptyMap
    /\ now = 0
    /\ chat_settings = DefaultRow
    /\ chat_logs = <<>>
    /\ settings = MemDefaultSettings
    /\ logs = <<>>
    /\ last = NoRequest
    /\ probe = pr
    /\ sent = EmptyMap

Env(bypass, secret, issuer) ==
    [ADMIN_BYPASS_TOKEN |-> bypass, AUTH_JWT_SECRET |-> secret, AUTH_JWT_ISSUER |-> issuer]

-----------------------------------------------------------------------------
\* SpecAllow: direct calls of allow() with one limit and window per behaviour.

InitAllow ==
    \E l \in 0 .. MaxLimit, w \in 0 .. MaxWindow :
        Boot("sqlite", Env(Undefined, Undefined, Undefined),
             [limit |-> l, windowMs |-> w, calls |-> <<>>])

NextAllow ==
    \/ \E ip \in IPs : Len(probe.calls) < MaxCalls /\ AllowCall(ip)
    \/ now < MaxNow /\ Tick(1)

SpecAllow == InitAllow /\ [][NextAllow]_vars

\* the calls made for one key, in order
CallsOf(ip) == SelectSeq(probe.calls, LAMBDA c : c.key = ip)

\* C1: starting from a key with no bucket, of the calls allow(key, limit, windowMs)
\* made within one window (no later than windowMs after the first) the first `limit`
\* return true and every later one, the (limit+1)-th included, returns false; and a
\* call made once the clock has passed the bucket's reset time returns true again
\* when limit >= 1.
C1_WindowLimit ==
    \A ip \in IPs :
        LET cs == CallsOf(ip) IN
        /\ \A n \in 1 .. Len(cs) :
              (\A i \in 1 .. n : cs[i].t <= cs[1].t + probe.windowMs)
                  => (cs[n].ok <=> n <= probe.limit)
        /\ \A i \in 2 .. Len(cs) :
              (cs[i].t > cs[i - 1].reset /\ probe.limit >= 1) => cs[i].ok

\* a key was refused its (limit+1)-th call in a window and allowed again after it
C1_Witness ==
    \E ip \in IPs :
        LET cs == CallsOf(ip) IN
        /\ probe.limit >= 1
        /\ Len(cs) >= probe.limit + 2
        /\ \A i \in 1 .. probe.limit + 1 : cs[i].t <= cs[1].t + probe.windowMs
        /\ ~cs[probe.limit + 1].ok
        /\ cs[probe.limit + 2].t > cs[probe.limit + 1].reset
        /\ cs[probe.limit + 2].ok

-----------------------------------------------------------------------------
\* Requests and upstream answers.

Secret == "s3cret"

\* headers of a request: client address, access cookie, x-admin header
Conn(ip, cookie, xadmin) ==
    [xff |-> Undefined, remoteAddress |-> ip, cookie |-> cookie, xadmin |-> xadmin]

ChatReq(c, messages, admin_user, user_id) ==
    [xff |-> c.xff, remoteAddress |-> c.remoteAddress, cookie |-> c.cookie, xadmin |-> c.xadmin,
     body |-> [messages |-> messages, admin_user |-> admin_user, user_id |-> user_id]]

TtsReq(c, text, voice) ==
    [xff |-> c.xff, remoteAddress |-> c.remoteAddress, cookie |-> c.cookie, xadmin |-> c.xadmin,
     query |-> [text |-> text, voice |-> voice]]

SttReq(c, file) ==
    [xff |-> c.xff, remoteAddress |-> c.remoteAddress, cookie |-> c.cookie, xadmin |-> c.xadmin,
     file |-> file]

LogsReq(c, q, limit) ==
    [xff |-> c.xff, remoteAddress |-> c.remoteAddress, cookie |-> c.cookie, xadmin |-> c.xadmin,
     query |-> [q |-> q, limit |-> limit]]

PutReq(c, model, tts_engine, tts_voice, system_prompt) ==
    [xff |-> c.xff, remoteAddress |-> c.remoteAddress, cookie |-> c.cookie, xadmin |-> c.xadmin,
     body |-> [model |-> model, tts_engine |-> tts_engine, tts_voice |-> tts_voice,
               system_prompt |-> system_prompt]]

Usage == [prompt_tokens |-> 3, completion_tokens |-> 1]
NoUsage == [prompt_tokens |-> 0, completion_tokens |-> 0]

\* a success answer of the upstream with the given content
UpOk(content, usage) ==
    [kind |-> "ok", status |-> 200, content |-> content, usage |-> usage,
     data |-> [content |-> content]]

\* a non-success answer of the upstream
UpError(status) ==
    [kind |-> "error", status |-> status, content |-> Undefined, usage |-> NoUsage,
     data |-> [error |-> [upstream |-> status]]]

\* the fetch itself fails (network), or the body is not JSON
UpThrow ==
    [kind |-> "throw", status |-> 0, content |-> Undefined, usage |-> NoUsage,
     data |-> [none |-> TRUE]]

Admin == Conn("10.0.0.1", NoToken, Secret)
Anonymous == Conn("10.0.0.1", NoToken, Undefined)

Hi == [role |-> "user", content |-> <<"h", "i">>]

ChatRoutes == {"POST /api/super/chat", "POST /api/chat/user/send"}
TtsRoutes == {"GET /api/super/tts", "GET /api/tts"}
SttRoutes == {"POST /api/super/stt", "POST /api/stt"}

\* the log store of the running server, newest entry first
LogsNewestFirst == IF server = "sqlite" THEN Reverse(chat_logs) ELSE logs

\* the settings of the running server
CurrentSettings == IF server = "sqlite" THEN chat_settings ELSE settings

\* requests already counted in the client's current bucket
BurstOf(ip) == IF ip \in DOMAIN bucket THEN bucket[ip].count ELSE 0

-----------------------------------------------------------------------------
\* Spec: the chat, TTS and STT routes of both servers against an upstream that
\* answers, refuses or fails, with the system prompt set through the settings route.

\* log entries after which no further chat is sent
MaxLogs == 2
\* requests of one client after which no further rate-limited request is sent
MaxBurst == 2

Prompts == {<<>>, <<" ">>, <<"b", "e">>}

ChatUps == {UpOk("hello", Usage), UpOk(Null, NoUsage), UpError(400), UpError(500), UpThrow}
AudioUps == {UpOk("bytes", NoUsage), UpError(400), UpError(500), UpThrow}

Init ==
    \E srv \in {"sqlite", "memory"} : Boot(srv, Env(Secret, Undefined, Undefined), NoProbe)

CanSend == BurstOf("10.0.0.1") < MaxBurst
CanChat == CanSend /\ Len(LogsNewestFirst) < MaxLogs

Next ==
    \/ \E sp \in Prompts, undef \in {"throw", "null"} :
          SuperSettingsPut(PutReq(Admin, JStr("gpt-4o-mini"), JStr("openai"), JStr("alloy"),
                                  JStr(sp)), undef)
    \/ \E m \in {JUndef, JNull, JArr(<<Hi>>)}, au \in {Undefined, Obj}, up \in ChatUps :
          CanChat /\ SuperChat(ChatReq(Admin, m, au, Undefined), up, "ok")
    \/ CanChat /\ SuperChat(ChatReq(Admin, JArr(<<Hi>>), Undefined, Undefined),
                            UpOk("hello", Usage), "SQLITE_FULL")
    \/ CanChat /\ SuperChat(ChatReq(Anonymous, JArr(<<Hi>>), Undefined, Undefined),
                            UpOk("hello", Usage), "ok")
    \/ \E uid \in {Undefined, "u7"}, up \in ChatUps, db \in {"ok", "SQLITE_FULL"} :
          CanChat /\ UserChat(ChatReq(Anonymous, JArr(<<Hi>>), Undefined, uid), up, db)
    \/ \E c \in {Admin, Anonymous}, up \in AudioUps :
          CanSend /\ SuperTts(TtsReq(c, "hi", Undefined), up)
    \/ \E up \in AudioUps : CanSend /\ UserTts(TtsReq(Anonymous, "hi", "nova"), up)
    \/ \E c \in {Admin, Anonymous}, f \in {Undefined, "audio.webm"}, up \in AudioUps :
          CanSend /\ SuperStt(SttReq(c, f), up)
    \/ \E up \in AudioUps : CanSend /\ UserStt(SttReq(Anonymous, "audio.webm"), up)
    \/ \E c \in {Admin, Anonymous}, m \in {JUndef, JArr(<<Hi>>)}, up \in ChatUps :
          CanChat /\ MemSuperChat(ChatReq(c, m, Undefined, Undefined), up)
    \/ \E up \in ChatUps :
          CanChat /\ MemUserChat(ChatReq(Anonymous, JArr(<<Hi>>), Undefined, Undefined), up)
    \/ \E c \in {Admin, Anonymous}, up \in AudioUps : MemSuperTts(TtsReq(c, "hi", Undefined), up)
    \/ \E up \in AudioUps : MemUserTts(TtsReq(Anonymous, "hi", "nova"), up)

Spec == Init /\ [][Next]_vars

\* the scope tag of a chat route's tier
ScopeOf(route) == IF route = "POST /api/super/chat" THEN "super" ELSE "user"

\* the messages a chat request carries
RequestMessages(l) == IF l.req.body.messages.t = "array" THEN l.req.body.messages.v ELSE <<>>

\* the upstream answered the chat call of request l with success
UpstreamSucceeded(l) == l.route \in ChatRoutes /\ l.calls # <<>> /\ l.up.kind = "ok"

\* the insert of request l's log row failed: a value that cannot be bound, or the database
InsertFailed(l) ==
    /\ server = "sqlite"
    /\ \/ l.db # "ok"
       \/ l.route = "POST /api/super/chat" /\ l.req.body.admin_user = Obj

\* this step appended exactly one entry, tagged and filled from the request l
OneEntryAppended(l) ==
    /\ Len(LogsNewestFirst') = Len(LogsNewestFirst) + 1
    /\ Tail(LogsNewestFirst') = LogsNewestFirst
    /\ Head(LogsNewestFirst').scope = ScopeOf(l.route)
    /\ l.status = 200
    /\ Head(LogsNewestFirst').reply = l.body.reply
    /\ Head(LogsNewestFirst').messages = JSONstringify(l.calls[1].messages)

RefusalAnswer(l) ==
    IF server = "memory"
    THEN [status |-> 500,
          body |-> [error |-> IF l.route \in ChatRoutes THEN "chat_failed" ELSE "tts_failed"]]
    ELSE [status |-> IF l.route \in ChatRoutes THEN l.up.status ELSE 500,
          body |-> l.up.data]

C8_LogFailureNonFatal ==
    (UpstreamSucceeded(last) /\ InsertFailed(last)) =>
        /\ last.status = 200
        /\ last.body.reply = last.up.content

\* the system prompt stored at the time of the request
StoredPrompt == IF server = "sqlite" THEN chat_settings.system_prompt ELSE <<>>

SystemMessage == [role |-> "system", content |-> StoredPrompt]

\* a text with no character other than whitespace
IsBlank(text) == \A i \in 1 .. Len(text) : text[i] \in Whitespace

\* C10 as stated: the sequence sent upstream is the system message followed by the
\* request's messages when the stored system prompt is non-empty, and exactly the
\* request's messages when it is empty.
C10_Original ==
    (last.route \in ChatRoutes /\ last.calls # <<>>) =>
        last.calls[1].messages =
            IF StoredPrompt # <<>> THEN <<SystemMessage>> \o RequestMessages(last)
            ELSE RequestMessages(last)

\* C10 amended: the sequence sent upstream is the system message followed by the
\* request's messages when the stored system prompt has a non-whitespace character,
\* and exactly the request's messages when it is empty or all whitespace.
C10_SystemPromptFirst ==
    (last.route \in ChatRoutes /\ last.calls # <<>>) =>
        last.calls[1].messages =
            IF ~IsBlank(StoredPrompt) THEN <<SystemMessage>> \o RequestMessages(last)
            ELSE RequestMessages(last)

\* a chat went upstream as system message then the request's message
C10_Witness ==
    /\ last.route \in ChatRoutes
    /\ last.calls # <<>>
    /\ StoredPrompt # <<>>
    /\ last.calls[1].messages = <<SystemMessage, Hi>>

-----------------------------------------------------------------------------
\* SpecSettings: the settings routes and the TTS routes of both servers.

PutBodies ==
    {PutReq(Admin, JStr(m), JStr(e), JStr(v), JStr(sp)) :
        m \in {"", "gpt-4o"}, e \in {"", "browser", "Browser"}, v \in {"", "nova"},
        sp \in {<<>>, <<"b", "e">>}}

PartialBodies ==
    {PutReq(Admin, JUndef, JUndef, JStr("nova"), JUndef),
     PutReq(Admin, JNull, JNull, JStr("nova"), JNull),
     PutReq(Admin, JObj, JStr("browser"), JStr("nova"), JStr(<<>>))}

MemPutBodies ==
    {PutReq(Admin, m, e, v, JUndef) :
        m \in {JUndef, JStr(""), JStr("gpt-4o")}, e \in {JUndef, JStr(""), JStr("browser")},
        v \in {JUndef, JStr("nova")}}

InitSettings ==
    \E srv \in {"sqlite", "memory"} : Boot(srv, Env(Secret, Undefined, Undefined), NoProbe)

NextSettings ==
    \/ \E req \in PutBodies : SuperSettingsPut(req, "throw")
    \/ \E req \in PartialBodies, undef \in {"throw", "null"} : SuperSettingsPut(req, undef)
    \/ SuperSettingsPut(PutReq(Anonymous, JStr("gpt-4o"), JStr("browser"), JStr("nova"),
                               JStr(<<>>)), "throw")
    \/ \E c \in {Admin, Anonymous} : SuperSettingsGet(Conn(c.remoteAddress, c.cookie, c.xadmin))
    \/ \E c \in {Admin, Anonymous}, voice \in {Undefined, "echo"},
          up \in {UpOk("bytes", NoUsage), UpError(500)} :
          CanSend /\ SuperTts(TtsReq(c, "hi", voice), up)
    \/ \E up \in {UpOk("bytes", NoUsage), UpError(500)} :
          CanSend /\ UserTts(TtsReq(Anonymous, "hi", Undefined), up)
    \/ \E req \in MemPutBodies : MemSuperSettingsPut(req)
    \/ \E c \in {Admin, Anonymous} : MemSuperSettingsGet(Conn(c.remoteAddress, c.cookie, c.xadmin))
    \/ \E c \in {Admin, Anonymous}, voice \in {Undefined, "echo"},
          up \in {UpOk("bytes", NoUsage), UpError(500)} :
          MemSuperTts(TtsReq(c, "hi", voice), up)
    \/ \E up \in {UpOk("bytes", NoUsage), UpError(500)} :
          MemUserTts(TtsReq(Anonymous, "hi", Undefined), up)

SpecSettings == InitSettings /\ [][NextSettings]_vars

\* C4: a TTS request handled while the stored tts_engine is 'browser' is answered
\* with the configuration error 400 and issues no upstream speech-synthesis call.
C4_BrowserTtsRejected ==
    (last.route \in TtsRoutes /\ last.ran /\ CurrentSettings.tts_engine = "browser") =>
        /\ last.status = 400
        /\ last.calls = <<>>

\* a supplied, non-empty field of a settings update
Supplied(x) == x.t = "string" /\ Len(x.v) > 0

\* C5: after a settings update each field equals the supplied value when the request
\* supplied it non-empty, and keeps its earlier value when the field is absent or
\* empty.
C5_PartialUpdate ==
    [][(last'.route = "PUT /api/super/settings" /\ last'.ran) =>
          \A f \in DOMAIN CurrentSettings :
              CurrentSettings'[f] =
                  IF Supplied(last'.req.body[f]) THEN last'.req.body[f].v
                  ELSE CurrentSettings[f]]_vars

-----------------------------------------------------------------------------
\* SpecAuth: the superadmin routes of both servers under every configuration of the
\* bypass token and the JWT secret, asked with good, forged and missing credentials.

\* requests of one client after which SpecAuth sends no further rate-limited request
MaxAuthBurst == 21

Key == "k"
Issuer == "micron"

Credentials ==
    {Conn("10.0.0.1", NoToken, Undefined),
     Conn("10.0.0.1", NoToken, Secret),
     Conn("10.0.0.1", NoToken, "wrong"),
     Conn("10.0.0.1", Garbage, Undefined),
     Conn("10.0.0.1", Jwt(Key, Issuer, "superadmin"), Undefined),
     Conn("10.0.0.1", Jwt(Key, Issuer, "user"), Undefined),
     Conn("10.0.0.1", Jwt(Key, Issuer, Undefined), Undefined),
     Conn("10.0.0.1", Jwt(Key, "evil", "superadmin"), Undefined),
     Conn("10.0.0.1", Jwt("forged", Issuer, "superadmin"), Undefined)}

Envs ==
    {Env(b, k[1], k[2]) :
        b \in {Undefined, Secret},
        k \in {<<Undefined, Undefined>>, <<Key, Undefined>>, <<Key, Issuer>>}}

InitAuth ==
    \/ \E e \in Envs : Boot("sqlite", e, NoProbe)
    \/ \E b \in {Undefined, "", Secret} : Boot("memory", Env(b, Undefined, Undefined), NoProbe)

CanSendAuth == BurstOf("10.0.0.1") < MaxAuthBurst

NextAuth ==
    \/ \E c \in Credentials : SuperSettingsGet(c)
    \/ \E c \in Credentials :
          SuperSettingsPut(PutReq(c, JStr("gpt-4o"), JStr("openai"), JStr("nova"),
                                  JStr(<<"b", "e">>)), "throw")
    \/ \E c \in Credentials :
          /\ CanSendAuth
          /\ Len(chat_logs) < MaxLogs
          /\ SuperChat(ChatReq(c, JArr(<<Hi>>), Undefined, Undefined), UpOk("hello", Usage), "ok")
    \/ \E c \in Credentials :
          CanSendAuth /\ SuperTts(TtsReq(c, "hi", Undefined), UpOk("bytes", NoUsage))
    \/ \E c \in Credentials :
          CanSendAuth /\ SuperStt(SttReq(c, "audio.webm"), UpOk("text", NoUsage))
    \/ \E c \in Credentials : SuperLogs(LogsReq(c, Undefined, Undefined))
    \/ \E c \in Credentials : MemSuperSettingsGet(c)
    \/ \E c \in Credentials :
          MemSuperSettingsPut(PutReq(c, JStr("gpt-4o"), JStr("openai"), JStr("nova"), JUndef))
    \/ \E c \in Credentials :
          /\ Len(logs) < MaxLogs
          /\ MemSuperChat(ChatReq(c, JArr(<<Hi>>), Undefined, Undefined), UpOk("hello", Usage))
    \/ \E c \in Credentials : MemSuperTts(TtsReq(c, "hi", Undefined), UpOk("bytes", NoUsage))
    \/ \E c \in Credentials : MemSuperLogs(LogsReq(c, Undefined, Undefined))

SpecAuth == InitAuth /\ [][NextAuth]_vars

SuperRoutes ==
    {"GET /api/super/settings", "PUT /api/super/settings", "POST /api/super/chat",
     "GET /api/super/tts", "POST /api/super/stt", "GET /api/super/logs"}

\* the access credential of request l is a token signed with the configured secret
\* (and from the configured issuer, when one is configured)
Verified(l) ==
    /\ l.req.cookie.kind = "jwt"
    /\ TruthyStr(env.AUTH_JWT_SECRET)
    /\ l.req.cookie.key = env.AUTH_JWT_SECRET
    /\ (TruthyStr(env.AUTH_JWT_ISSUER) => l.req.cookie.iss = env.AUTH_JWT_ISSUER)

\* C7: the auth resolver returns a non-null role only for a credential whose signature
\* was verified; an absent or unverifiable credential resolves to null.
C7_RoleOnlyIfVerified == (last.role \notin {Undefined, Null}) => Verified(last)

\* the role the server resolved for request l (the in-memory server resolves none)
ResolvedRole(l) == IF server = "sqlite" THEN getRoleFromCookie(l.req) ELSE Null

\* request l carries the configured, non-empty bypass secret in x-admin
PresentsBypass(l) ==
    /\ env.ADMIN_BYPASS_TOKEN \notin {Undefined, Null, ""}
    /\ l.req.xadmin = env.ADMIN_BYPASS_TOKEN

Entitled(l) == ResolvedRole(l) = "superadmin" \/ PresentsBypass(l)

StoresUntouched(l) ==
    /\ l.touched = {}
    /\ chat_settings' = chat_settings
    /\ chat_logs' = chat_logs
    /\ settings' = settings
    /\ logs' = logs

\* C6 as stated: a superadmin route's handler runs only for the role 'superadmin' or
\* the exact, non-empty bypass secret; every other request is answered 401 and
\* neither reads nor changes the settings or the log store.
C6_Original ==
    [][last'.route \in SuperRoutes =>
          /\ last'.ran => Entitled(last')
          /\ ~Entitled(last') =>
                /\ last'.status = 401
                /\ StoresUntouched(last')]_vars

\* C6 amended: a superadmin route's handler runs only for the role 'superadmin' or the
\* exact, non-empty bypass secret; every other request is answered 401, or 429 when
\* the route's rate limiter refused it first, and neither reads nor changes the
\* settings or the log store.
C6_SuperadminOnly ==
    [][last'.route \in SuperRoutes =>
          /\ last'.ran => Entitled(last')
          /\ ~Entitled(last') =>
                /\ \/ last'.status = 401
                   \/ last'.status = 429 /\ last'.limited /\ server = "sqlite"
                /\ ~last'.ran
                /\ StoresUntouched(last')]_vars

\* a settings update carrying a forged superadmin token was answered 401 after an
\* entitled update had changed the settings
C6_Witness ==
    /\ last.route = "PUT /api/super/settings"
    /\ last.req.cookie.kind = "jwt"
    /\ last.req.cookie.role = "superadmin"
    /\ ~Entitled(last)
    /\ last.status = 401
    /\ CurrentSettings.tts_voice = "nova"

-----------------------------------------------------------------------------
\* SpecLogs: chats that succeed, then the logs route with a limit and no filter.

InitLogs ==
    \E srv \in {"sqlite", "memory"} : Boot(srv, Env(Secret, Undefined, Undefined), NoProbe)

Limits == {Undefined, "", "0", "1", "2", "3", "-1"}

NextLogs ==
    \/ \E m \in {JArr(<<>>), JArr(<<Hi>>)}, c \in {"hello", "sure"} :
          CanChat /\ SuperChat(ChatReq(Admin, m, Undefined, Undefined), UpOk(c, Usage), "ok")
    \/ \E c \in {"hello", "sure"} :
          CanChat /\ UserChat(ChatReq(Anonymous, JArr(<<Hi>>), Undefined, "u7"), UpOk(c, Usage), "ok")
    \/ \E c \in {Admin, Anonymous}, limit \in Limits : SuperLogs(LogsReq(c, Undefined, limit))
    \/ now < WindowMs + 1 /\ Tick(WindowMs + 1)
    \/ \E m \in {JArr(<<>>), JArr(<<Hi>>)}, c \in {"hello", "sure"} :
          CanChat /\ MemSuperChat(ChatReq(Admin, m, Undefined, Undefined), UpOk(c, Usage))
    \/ \E c \in {"hello", "sure"} :
          CanChat /\ MemUserChat(ChatReq(Anonymous, JArr(<<Hi>>), Undefined, Undefined), UpOk(c, Usage))
    \/ \E c \in {Admin, Anonymous}, limit \in Limits : MemSuperLogs(LogsReq(c, "", limit))

SpecLogs == InitLogs /\ [][NextLogs]_vars

\* the k of a request `limit=k` with k a natural number
AskedLimit(l) ==
    CASE l.req.query.limit = "0" -> 0
      [] l.req.query.limit = "1" -> 1
      [] l.req.query.limit = "2" -> 2
      [] l.req.query.limit = "3" -> 3

\* the first k entries of a sequence, all of it when it is shorter
FirstK(seq, k) == SubSeq(seq, 1, IF k < Len(seq) THEN k ELSE Len(seq))

\* C9: after n successful chats, the logs route asked with limit=k and no filter
\* answers exactly the min(k, n) most recently created entries, newest first; and no
\* step modifies or removes an existing entry.
C9_LogsLimit ==
    [][/\ (last'.route = "GET /api/super/logs" /\ last'.ran
              /\ last'.req.query.limit \in {"0", "1", "2", "3"})
          => last'.body.rows = FirstK(LogsNewestFirst', AskedLimit(last'))
       /\ \E k \in 0 .. Len(LogsNewestFirst') :
             LogsNewestFirst = SubSeq(LogsNewestFirst', k + 1, Len(LogsNewestFirst'))]_vars

-----------------------------------------------------------------------------
\* SpecRate: one client sends requests to three rate-limited routes of the SQLite
\* server within one window; `sent` counts what each route received from it.

\* requests of the client after which SpecRate sends no further request
MaxRateBurst == 21

\* the limit a route hands to rateLimit
RouteLimit(route) ==
    CASE route = "POST /api/super/chat" -> SuperChatLimit
      [] route = "GET /api/super/tts" -> SuperTtsLimit
      [] route = "POST /api/super/stt" -> SuperSttLimit
      [] route = "POST /api/chat/user/send" -> UserChatLimit
      [] route = "GET /api/tts" -> UserTtsLimit
      [] route = "POST /api/stt" -> UserSttLimit

RateRoutes == {"POST /api/chat/user/send", "GET /api/tts", "POST /api/stt"}

InitRate ==
    /\ server = "sqlite"
    /\ env = Env(Secret, Undefined, Undefined)
    /\ bucket = EmptyMap
    /\ now = 0
    /\ chat_settings = DefaultRow
    /\ chat_logs = <<>>
    /\ settings = MemDefaultSettings
    /\ logs = <<>>
    /\ last = NoRequest
    /\ probe = NoProbe
    /\ sent = [k \in {"10.0.0.1"} \X RateRoutes |-> 0]

CanSendRate == BurstOf("10.0.0.1") < MaxRateBurst

NextRate ==
    \/ CanSendRate /\ UserChat(ChatReq(Anonymous, JArr(<<Hi>>), Undefined, Undefined),
                               UpError(500), "ok")
    \/ CanSendRate /\ UserTts(TtsReq(Anonymous, "hi", Undefined), UpOk("bytes", NoUsage))
    \/ CanSendRate /\ UserStt(SttReq(Anonymous, "audio.webm"), UpOk("text", NoUsage))

SpecRate == InitRate /\ [][NextRate]_vars

\* C11: a request of a client to a rate-limited route is rejected with 429 only if
\* the client had already made at least that route's own limit of requests to that
\* same route in the current window (the rejected request is then at least the
\* (limit+1)-th the route received from it); requests to other routes never cause a 429.
C11_PerRouteLimits ==
    (last.limited /\ last.status = 429) =>
        sent[<<ClientIp(last.req), last.route>>] > RouteLimit(last.route)

====
